---- MODULE Spec2Model ----
(***************************************************************************)
(* A model of script/btb_downloader.py (class EpisodeDownloader).          *)
(*                                                                         *)
(* Python strings are modelled as sequences of one-character strings, so   *)
(* that slicing, strip(), startswith()/endswith() and the regular          *)
(* expressions of the source are computed character by character.          *)
(***************************************************************************)
EXTENDS Integers, Sequences, FiniteSets, TLC

(***************************************************************************)
(* Bounds of the model.                                                    *)
(***************************************************************************)
MaxSpans == 4

(***************************************************************************)
(* String helpers (Python str methods used by the source).                 *)
(***************************************************************************)
Upper == {"A","B","C","D","E","F","G","H","I","J","K","L","M",
          "N","O","P","Q","R","S","T","U","V","W","X","Y","Z"}

Lower == {"a","b","c","d","e","f","g","h","i","j","k","l","m",
          "n","o","p","q","r","s","t","u","v","w","x","y","z"}

\* the characters str.strip() removes
IsSpace(c) == c \in {" ", "\n", "\t"}

RECURSIVE LStrip(_)
LStrip(s) ==
  IF s # <<>> /\ IsSpace(Head(s)) THEN LStrip(Tail(s)) ELSE s

RECURSIVE RStrip(_)
RStrip(s) ==
  IF s # <<>> /\ IsSpace(s[Len(s)]) THEN RStrip(SubSeq(s, 1, Len(s) - 1)) ELSE s

\* str.strip()
Strip(s) == LStrip(RStrip(s))

\* str.startswith(p) and str.endswith(p)
StartsWith(s, p) == Len(s) >= Len(p) /\ SubSeq(s, 1, Len(p)) = p

EndsWith(s, p) == Len(s) >= Len(p) /\ SubSeq(s, Len(s) - Len(p) + 1, Len(s)) = p

\* s[n:]
Drop(s, n) == SubSeq(s, n + 1, Len(s))

\* "".join(parts)
RECURSIVE Join(_)
Join(parts) ==
  IF parts = <<>> THEN <<>> ELSE Head(parts) \o Join(Tail(parts))

\* " " * n
RECURSIVE Spaces(_)
Spaces(n) == IF n <= 0 THEN <<>> ELSE <<" ">> \o Spaces(n - 1)

(***************************************************************************)
(* _extract_transcript: the post-processing of the joined text.            *)
(***************************************************************************)
\* the index of the last character of the run of c's that starts at i
RECURSIVE RunEnd(_, _, _)
RunEnd(s, i, cs) ==
  IF i + 1 <= Len(s) /\ s[i + 1] \in cs THEN RunEnd(s, i + 1, cs) ELSE i

\* re.sub(r'\n{3,}', '\n\n', s), scanning from position i
RECURSIVE CollapseFrom(_, _)
CollapseFrom(s, i) ==
  IF i > Len(s) THEN <<>>
  ELSE IF s[i] = "\n"
       THEN LET e == RunEnd(s, i, {"\n"})
            IN  (IF e - i + 1 >= 3 THEN <<"\n", "\n">> ELSE SubSeq(s, i, e))
                \o CollapseFrom(s, e + 1)
       ELSE <<s[i]>> \o CollapseFrom(s, i + 1)

CollapseNewlines(s) == CollapseFrom(s, 1)

\* does r'([^.\n])\n([A-Z][a-z]+)' match at position i of s
BlockBreakAt(s, i) ==
  /\ i + 3 <= Len(s)
  /\ s[i] \notin {".", "\n"}
  /\ s[i + 1] = "\n"
  /\ s[i + 2] \in Upper
  /\ s[i + 3] \in Lower

\* re.sub(r'([^.\n])\n([A-Z][a-z]+)', r'\1\n\n\2', s), scanning from i:
\* leftmost non-overlapping matches, [a-z]+ greedy
RECURSIVE BlockBreakFrom(_, _)
BlockBreakFrom(s, i) ==
  IF i > Len(s) THEN <<>>
  ELSE IF BlockBreakAt(s, i)
       THEN LET e == RunEnd(s, i + 3, Lower)
            IN  <<s[i], "\n", "\n">> \o SubSeq(s, i + 2, e) \o BlockBreakFrom(s, e + 1)
       ELSE <<s[i]>> \o BlockBreakFrom(s, i + 1)

InsertBlockBreaks(s) == BlockBreakFrom(s, 1)

\* "No transcript available."
NoTranscript ==
  <<"N","o"," ","t","r","a","n","s","c","r","i","p","t"," ",
    "a","v","a","i","l","a","b","l","e",".">>

\* FinishTranscript returning the built text as it is, the sentinel forgotten
FinishTranscript_NoSentinel(lines) ==
  InsertBlockBreaks(CollapseNewlines(Strip(Join(lines))))

\* lines 326-335: join, strip, the two substitutions, the sentinel
FinishTranscript(lines) ==
  LET joined == Strip(Join(lines))
      cleaned == InsertBlockBreaks(CollapseNewlines(joined))
  IN  IF cleaned # <<>> THEN cleaned ELSE NoTranscript

(***************************************************************************)
(* State.                                                                  *)
(***************************************************************************)
VARIABLES
  \* _extract_transcript (lines 255-335)
  page,                \* the episode page: which selector finds the container
  all_spans,           \* the spans of the container visited so far, in order
  transcript_lines,    \* list of emitted pieces
  current_speaker,     \* None or the last speaker text
  new_speaker_found,   \* flag
  xpc,                 \* "start", "walk" or "done"
  transcript,          \* the returned text
  \* the output directory and _get_existing_episodes (lines 72-104)
  dir,                 \* file name -> content of the file, or NoFile
  existing_episodes,   \* set of URLs
  outdated_episodes,   \* set of URLs
  scanned,             \* the files the loop of line 84 has visited
  ipc,                 \* "scan" or "done"
  \* the API and _get_episode_list (lines 192-253)
  feed,                \* the pages the API serves, in cursor order
  limit,               \* self.limit
  all_episodes,
  filtered_episodes,
  page_key,            \* None or the cursor of the next page
  \* download_episodes (lines 419-478)
  btb_episodes,
  episodes_to_download,
  idx,                 \* the i of the loop of line 443
  downloaded_count,
  pc,                  \* "fetch", "loop", "done" or "aborted"
  log,                 \* what the run did so far: <<event, number>> pairs
  previous,            \* the logs of the earlier runs of the program, oldest first
  \* _build_episode_url (lines 125-140)
  url_episodes,        \* the episode dictionaries the function is called on
  url_results          \* the calls made so far: <<which episode, URL returned>>

xvars == <<page, all_spans, transcript_lines, current_speaker,
           new_speaker_found, xpc, transcript>>

ivars == <<dir, existing_episodes, outdated_episodes, scanned, ipc>>

fvars == <<feed, limit, all_episodes, filtered_episodes, page_key>>

rvars == <<btb_episodes, episodes_to_download, idx, downloaded_count, pc, log, previous>>

uvars == <<url_episodes, url_results>>

vars == <<xvars, ivars, fvars, rvars, uvars>>

(***************************************************************************)
(* _extract_transcript: the walk over the spans.                           *)
(***************************************************************************)
\* Python's None / a value, for current_speaker
None == [some |-> FALSE, val |-> <<>>]

Some(v) == [some |-> TRUE, val |-> v]

\* truth value of an optional string: None and "" are false
Truthy(o) == o.some /\ o.val # <<>>

\* classes of the spans of a transcript
SpeakerClass == "podcast-transcription-speaker"

TimeClass == "podcast-transcription-time"

TextClass == "podcast-transcription-text"

\* `<name> in span_class_str`, on the list of classes of the span
HasClass(span, name) == \E k \in 1..Len(span.cls) : span.cls[k] = name

\* the if / elif chain of lines 286, 290, 312
Classify(span) ==
  IF HasClass(span, SpeakerClass) THEN "speaker"
  ELSE IF HasClass(span, TimeClass) THEN "time"
  ELSE IF HasClass(span, TextClass) THEN "text"
  ELSE "ignored"

\* HeaderPieces with the continuation header not padded to the speaker name
HeaderPieces_NoPadding(lines, speaker, pending, timestamp) ==
  LET sep == IF lines # <<>> THEN << <<"\n">> >> ELSE <<>>
  IN  IF pending /\ Truthy(speaker)
      THEN sep \o << speaker.val \o <<" ">> \o timestamp \o <<":">> >>
      ELSE IF Truthy(speaker)
           THEN sep \o << <<" ">> \o timestamp \o <<":">> >>
           ELSE sep \o << <<"S","p","e","a","k","e","r"," ">> \o timestamp \o <<":">> >>

\* lines 293-310: the pieces a timestamp span appends to transcript_lines
HeaderPieces(lines, speaker, pending, timestamp) ==
  LET sep == IF lines # <<>> THEN << <<"\n">> >> ELSE <<>>
  IN  IF pending /\ Truthy(speaker)
      THEN sep \o << speaker.val \o <<" ">> \o timestamp \o <<":">> >>
      ELSE IF Truthy(speaker)
           THEN sep \o << Spaces(Len(speaker.val)) \o <<" ">> \o timestamp \o <<":">> >>
           ELSE sep \o << <<"S","p","e","a","k","e","r"," ">> \o timestamp \o <<":">> >>

\* line 298: the flag is cleared only in the new-speaker branch
PendingAfterTime(speaker, pending) ==
  IF pending /\ Truthy(speaker) THEN FALSE ELSE pending

\* lines 314-324: the pieces a text span appends to transcript_lines
TextPieces(lines, text) ==
  IF text = <<>> THEN <<>>
  ELSE IF lines # <<>> /\ EndsWith(lines[Len(lines)], <<":">>)
       THEN << <<"\n">> \o text >>
       ELSE IF lines # <<>> /\ ~EndsWith(lines[Len(lines)], <<"\n">>)
            THEN << <<" ">> \o text >>
            ELSE << text >>

\* the pages and spans the walk is checked on
PageKinds == {"id", "class", "none"}

SpeakerTexts == { <<"J","a","n","e">>, <<"A","l"," ">>, <<>> }

TimeTexts == { <<"0","0",":","0","0">>, <<" ","0","0",":","0","5">> }

TextTexts == { <<"H","e","l","l","o">>, <<" ","h","i","\n">>, <<"o","k",".">>,
               <<"a",":">>, <<" ">> }

SpanInputs ==
  [cls : {<<SpeakerClass>>}, text : SpeakerTexts]
    \cup [cls : {<<TimeClass>>}, text : TimeTexts]
    \cup [cls : {<<TextClass>>}, text : TextTexts]
    \cup [cls : {<<"sr-only">>}, text : { <<"x">> }]

\* lines 273-275: the state of the walk before the first span
WalkStart == [lines |-> <<>>, speaker |-> None, pending |-> FALSE]

\* lines 281-324: one iteration of the loop, on the state st of the walk
SpanStep(st, span) ==
  LET kind == Classify(span)
      text == Strip(span.text)
  IN  [ speaker |-> IF kind = "speaker" THEN Some(text) ELSE st.speaker,
        pending |-> IF kind = "speaker" THEN TRUE
                    ELSE IF kind = "time"
                         THEN PendingAfterTime(st.speaker, st.pending)
                         ELSE st.pending,
        lines   |-> IF kind = "time"
                    THEN st.lines \o HeaderPieces(st.lines, st.speaker, st.pending, text)
                    ELSE IF kind = "text"
                         THEN st.lines \o TextPieces(st.lines, text)
                         ELSE st.lines ]

\* the loop of line 281 over the spans i.. of the container
RECURSIVE Walk(_, _, _)
Walk(st, spans, i) ==
  IF i > Len(spans) THEN st ELSE Walk(SpanStep(st, spans[i]), spans, i + 1)

\* lines 255-335 as a function of the page: pg.kind says which selector
\* finds the container, pg.spans are the spans of the container
ExtractTranscript(pg) ==
  IF pg.kind = "id" \/ pg.kind = "class"
  THEN FinishTranscript(Walk(WalkStart, pg.spans, 1).lines)
  ELSE NoTranscript

\* the other components are not running
IdleIndex ==
  /\ dir = <<>>
  /\ existing_episodes = {}
  /\ outdated_episodes = {}
  /\ scanned = {}
  /\ ipc = "done"

IdleFetch ==
  /\ feed = <<>>
  /\ limit = 0
  /\ all_episodes = <<>>
  /\ filtered_episodes = <<>>
  /\ page_key = None

IdleRun ==
  /\ btb_episodes = <<>>
  /\ episodes_to_download = <<>>
  /\ idx = 0
  /\ downloaded_count = 0
  /\ pc = "done"
  /\ log = <<>>
  /\ previous = <<>>

IdleUrl ==
  /\ url_episodes = <<>>
  /\ url_results = <<>>

IdleExtract ==
  /\ page = "none"
  /\ all_spans = <<>>
  /\ transcript_lines = <<>>
  /\ current_speaker = None
  /\ new_speaker_found = FALSE
  /\ xpc = "done"
  /\ transcript = <<>>

InitExtract ==
  /\ page \in PageKinds
  /\ all_spans = <<>>
  /\ transcript_lines = WalkStart.lines
  /\ current_speaker = WalkStart.speaker
  /\ new_speaker_found = WalkStart.pending
  /\ xpc = "start"
  /\ transcript = <<>>
  /\ IdleIndex /\ IdleFetch /\ IdleRun
  /\ IdleUrl

\* lines 264-278: locate the container (by id, else by class)
Locate ==
  /\ xpc = "start"
  /\ IF page = "id" \/ page = "class"
     THEN /\ xpc' = "walk"
          /\ transcript' = transcript
     ELSE /\ xpc' = "done"
          /\ transcript' = NoTranscript
  /\ UNCHANGED <<page, all_spans, transcript_lines, current_speaker, new_speaker_found>>
  /\ UNCHANGED <<ivars, fvars, rvars>>
  /\ UNCHANGED uvars

\* lines 281-324: one iteration of the loop, on the next span of the container
VisitSpan(span) ==
  /\ xpc = "walk"
  /\ Len(all_spans) < MaxSpans
  /\ all_spans' = Append(all_spans, span)
  /\ LET st == SpanStep([lines |-> transcript_lines, speaker |-> current_speaker,
                         pending |-> new_speaker_found], span)
     IN  /\ current_speaker' = st.speaker
         /\ new_speaker_found' = st.pending
         /\ transcript_lines' = st.lines
  /\ UNCHANGED <<page, xpc, transcript>>
  /\ UNCHANGED <<ivars, fvars, rvars>>
  /\ UNCHANGED uvars

\* lines 326-335: the loop is over
Finish ==
  /\ xpc = "walk"
  /\ transcript' = FinishTranscript(transcript_lines)
  /\ xpc' = "done"
  /\ UNCHANGED <<page, all_spans, transcript_lines, current_speaker, new_speaker_found>>
  /\ UNCHANGED <<ivars, fvars, rvars>>
  /\ UNCHANGED uvars

NextExtract ==
  \/ Locate
  \/ \E span \in SpanInputs : VisitSpan(span)
  \/ Finish

SpecExtract == InitExtract /\ [][NextExtract]_vars

(***************************************************************************)
(* Claims about _extract_transcript, checked under SpecExtract.            *)
(***************************************************************************)
\* the fragments of the container: the role and the trimmed text of a span
Role(k) == Classify(all_spans[k])

FragText(k) == Strip(all_spans[k].text)

Fragments == {k \in 1..Len(all_spans) : Role(k) # "ignored"}

\* the last fragment of role r strictly before position n (0 if there is none)
LastBefore(r, n) ==
  LET ks == {k \in 1..(n - 1) : Role(k) = r}
  IN  IF ks = {} THEN 0 ELSE CHOOSE k \in ks : \A j \in ks : j <= k

Returned == xpc = "done" /\ page # "none"

\* C6: a container holding exactly [Speaker(s), Timestamp(t), Text(x)], with
\* s, t and x non-empty, is rendered as "s t:", one line break, then x
\* ("Jane 00:00:\nHello" for the example).
C6_SingleBlock ==
  ( /\ Returned
    /\ Len(all_spans) = 3
    /\ Role(1) = "speaker" /\ Role(2) = "time" /\ Role(3) = "text"
    /\ FragText(1) # <<>> /\ FragText(2) # <<>> /\ FragText(3) # <<>> )
  => transcript =
       FragText(1) \o <<" ">> \o FragText(2) \o <<":", "\n">> \o FragText(3)

\* the header the claim C7 expects of the timestamp at position n, where
\* `known` says when the fragment at position ls counts as a speaker
ExpectedHeader(n, known(_)) ==
  LET ls == LastBefore("speaker", n)
      lt == LastBefore("time", n)
      t  == FragText(n)
  IN  IF ~known(ls)
      THEN <<"S","p","e","a","k","e","r"," ">> \o t \o <<":">>
      ELSE IF ls > lt
           THEN FragText(ls) \o <<" ">> \o t \o <<":">>
           ELSE [k \in 1..Len(FragText(ls)) |-> " "] \o <<" ">> \o t \o <<":">>

AnySpeakerSeen(ls) == ls > 0

NamedSpeakerSeen(ls) == ls > 0 /\ FragText(ls) # <<>>

LastIsTime == all_spans # <<>> /\ Role(Len(all_spans)) = "time"

LastPiece == transcript_lines[Len(transcript_lines)]

\* C7 as stated: the header of a timestamp is "Speaker <t>:" before any
\* Speaker fragment, "<speaker> <t>:" after a new Speaker fragment, and the
\* padded continuation header otherwise.
C7_HeaderAsStated ==
  LastIsTime =>
    /\ transcript_lines # <<>>
    /\ LastPiece = ExpectedHeader(Len(all_spans), AnySpeakerSeen)

\* C7 amended: as C7, where a Speaker fragment whose trimmed name is empty
\* leaves no speaker known: the header is then "Speaker <t>:".
C7_Header ==
  LastIsTime =>
    /\ transcript_lines # <<>>
    /\ LastPiece = ExpectedHeader(Len(all_spans), NamedSpeakerSeen)

\* a continuation header under a named speaker, and the no-speaker header
\* after an unnamed Speaker fragment
C7_Witness ==
  /\ LastIsTime
  /\ LET n == Len(all_spans)
     IN  /\ LastBefore("speaker", n) > 0
         /\ LastBefore("speaker", n) < LastBefore("time", n)
         /\ Len(FragText(LastBefore("speaker", n))) = 4
         /\ LastPiece = <<" "," "," "," "," ","0","0",":","0","5",":">>

\* the number of characters other than line breaks in s
RECURSIVE NonBreaks(_)
NonBreaks(s) ==
  IF s = <<>> THEN 0
  ELSE (IF Head(s) = "\n" THEN 0 ELSE 1) + NonBreaks(Tail(s))

\* the position in s of its m-th character that is no line break (0 if none)
RECURSIVE NthNonBreak(_, _, _)
NthNonBreak(s, m, i) ==
  IF i > Len(s) THEN 0
  ELSE IF s[i] # "\n"
       THEN (IF m = 1 THEN i ELSE NthNonBreak(s, m - 1, i + 1))
       ELSE NthNonBreak(s, m, i + 1)

\* the piece k of transcript_lines is a header that is not the first piece
LaterHeader(k) == k >= 2 /\ transcript_lines[k - 1] = <<"\n">>

\* where the piece k starts in the returned text
StartInText(k) ==
  NthNonBreak(transcript, NonBreaks(Join(SubSeq(transcript_lines, 1, k - 1))) + 1, 1)

\* C8: in the returned text every block header but the first emitted line
\* is preceded by a blank line (two line breaks).
C8_BlankLineBeforeHeader ==
  Returned =>
    \A k \in 1..Len(transcript_lines) :
      LaterHeader(k) =>
        LET p == StartInText(k)
        IN  p >= 3 /\ transcript[p - 1] = "\n" /\ transcript[p - 2] = "\n"

\* C9: the result is the sentinel when there is no container or the
\* container holds no fragment, and the result is never the empty string.
C9_Sentinel ==
  xpc = "done" =>
    /\ transcript # <<>>
    /\ (page = "none" \/ Fragments = {}) =>
         transcript = <<"N","o"," ","t","r","a","n","s","c","r","i","p","t"," ",
                        "a","v","a","i","l","a","b","l","e",".">>

\* a container was found, it holds no fragment, the sentinel is returned
C9_Witness ==
  /\ Returned
  /\ Fragments = {}
  /\ transcript = NoTranscript

(***************************************************************************)
(* Episodes of the API, their URL and their file name.                     *)
(***************************************************************************)
UpperSeq == <<"A","B","C","D","E","F","G","H","I","J","K","L","M",
              "N","O","P","Q","R","S","T","U","V","W","X","Y","Z">>

LowerSeq == <<"a","b","c","d","e","f","g","h","i","j","k","l","m",
              "n","o","p","q","r","s","t","u","v","w","x","y","z">>

DigitSeq == <<"0","1","2","3","4","5","6","7","8","9">>

Digits == {DigitSeq[k] : k \in 1..10}

\* str.lower(), on one character and on a string
LowerChar(c) ==
  IF c \in Upper THEN LowerSeq[CHOOSE k \in 1..26 : UpperSeq[k] = c] ELSE c

LowerStr(s) == [k \in 1..Len(s) |-> LowerChar(s[k])]

\* str(n) of an integer
RECURSIVE NatToStr(_)
NatToStr(n) ==
  IF n < 10 THEN <<DigitSeq[n + 1]>>
  ELSE NatToStr(n \div 10) \o <<DigitSeq[(n % 10) + 1]>>

IntToStr(n) == IF n < 0 THEN <<"-">> \o NatToStr(0 - n) ELSE NatToStr(n)

\* `needle in hay`
Contains(hay, needle) ==
  \E k \in 0..(Len(hay) - Len(needle)) : SubSeq(hay, k + 1, k + Len(needle)) = needle

\* re.sub(r'[^a-z0-9]+', '-', s), scanning from position i
RECURSIVE HyphenateFrom(_, _)
HyphenateFrom(s, i) ==
  IF i > Len(s) THEN <<>>
  ELSE IF s[i] \in Lower \cup Digits
       THEN <<s[i]>> \o HyphenateFrom(s, i + 1)
       ELSE IF i > 1 /\ s[i - 1] \notin Lower \cup Digits
            THEN HyphenateFrom(s, i + 1)
            ELSE <<"-">> \o HyphenateFrom(s, i + 1)

\* str.strip('-')
RECURSIVE StripHyphens(_)
StripHyphens(s) ==
  IF s # <<>> /\ Head(s) = "-" THEN StripHyphens(Tail(s))
  ELSE IF s # <<>> /\ s[Len(s)] = "-" THEN StripHyphens(SubSeq(s, 1, Len(s) - 1))
  ELSE s

\* re.sub(r'-+', '-', s), scanning from position i
RECURSIVE CollapseHyphensFrom(_, _)
CollapseHyphensFrom(s, i) ==
  IF i > Len(s) THEN <<>>
  ELSE IF s[i] = "-" /\ i > 1 /\ s[i - 1] = "-"
       THEN CollapseHyphensFrom(s, i + 1)
       ELSE <<s[i]>> \o CollapseHyphensFrom(s, i + 1)

\* lines 106-123
Slugify(text) ==
  CollapseHyphensFrom(StripHyphens(HyphenateFrom(LowerStr(text), 1)), 1)

\* an absent key of the episode dictionary / a present one
Absent == [some |-> FALSE, val |-> <<>>]

DefaultPodcastSlug == <<"1","0","5","-","b","e","h","i","n","d","-","t","h","e","-","b","a","s","t","a","r","d","s">>

DefaultPodcastId == 29236323

\* a value of the API's JSON that is an integer / a string
JsonInt(n) == [int |-> TRUE, num |-> n, str |-> <<>>]

JsonStr(s) == [int |-> FALSE, num |-> 0, str |-> s]

\* line 140: how the f-string formats such a value
FormatValue(v) == IF v.int THEN IntToStr(v.num) ELSE v.str

\* lines 125-140
BuildEpisodeUrl(episode) ==
  LET podcast_slug == IF episode.podcastSlug.some THEN episode.podcastSlug.val
                      ELSE DefaultPodcastSlug
      podcast_id == IF episode.podcastId.some THEN episode.podcastId.val
                    ELSE IntToStr(DefaultPodcastId)
      title_slug == Slugify(episode.title)
  IN  <<"h","t","t","p","s",":","/","/","w","w","w",".","i","h","e","a","r","t",".","c","o","m","/","p","o","d","c","a","s","t","/">> \o podcast_slug \o <<"-">> \o podcast_id
        \o <<"/","e","p","i","s","o","d","e","/">> \o title_slug \o <<"-">> \o FormatValue(episode.id) \o <<"/">>

MsPerDay == 86400000

\* two decimal digits (%d, %m)
TwoDigits(n) == IF n < 10 THEN <<"0">> \o NatToStr(n) ELSE NatToStr(n)

\* lines 157-170, for the timestamps of January 1970 (UTC); a timestamp that
\* is no number (TypeError) gives "Unknown-Date"
FormatDateForFilename(timestamp_ms) ==
  IF ~timestamp_ms.some THEN <<"U","n","k","n","o","w","n","-","D","a","t","e">>
  ELSE <<"1","9","7","0","-","0","1","-">> \o TwoDigits((timestamp_ms.val \div MsPerDay) + 1)

\* lines 142-155, for the timestamps of January 1970 (UTC)
FormatDate(timestamp_ms) ==
  IF ~timestamp_ms.some THEN <<"U","n","k","n","o","w","n"," ","D","a","t","e">>
  ELSE <<"J","a","n","u","a","r","y"," ">> \o TwoDigits((timestamp_ms.val \div MsPerDay) + 1) \o <<","," ","1","9","7","0">>

\* lines 172-190
SafeFilename(episode) ==
  FormatDateForFilename(episode.startDate) \o <<"_">> \o Slugify(episode.title)
    \o <<".","t","x","t">>

\* line 231: the filter of the episodes of the other show of the feed
IsBtb(episode) ==
  ~Contains(LowerStr(episode.title), <<"i","t"," ","c","o","u","l","d"," ","h","a","p","p","e","n"," ","h","e","r","e">>)

(***************************************************************************)
(* The record file of an episode and the scan of the output directory.     *)
(***************************************************************************)
\* line 42
VERSION == <<"1",".","3",".","7">>

UrlPrefix == <<"U","R","L",":"," ">>

VersionPrefix == <<"B","T","B"," ","D","o","w","n","l","o","a","d","e","r"," ","V","e","r","s","i","o","n",":"," ">>

\* the offset of the slice of line 93
VersionSlice == 23

\* the position of the first line break of s at or after b (Len(s) if none)
LineEnd(s, b) ==
  LET breaks == {j \in b..Len(s) : s[j] = "\n"}
  IN  IF breaks = {} THEN Len(s) ELSE CHOOSE j \in breaks : \A k \in breaks : j <= k

\* the lines of a text file from position b on, each with the line break
\* that ends it (line 89: for line in f)
RECURSIVE SplitLinesFrom(_, _)
SplitLinesFrom(s, b) ==
  IF b > Len(s) THEN <<>>
  ELSE <<SubSeq(s, b, LineEnd(s, b))>> \o SplitLinesFrom(s, LineEnd(s, b) + 1)

SplitLines(s) == SplitLinesFrom(s, 1)

\* ScanLines with the version taken from the slice as it is, not stripped
RECURSIVE ScanLines_NoStrip(_, _, _, _)
ScanLines_NoStrip(lines, i, url, version) ==
  IF i > Len(lines) THEN [url |-> url, version |-> version]
  ELSE LET line == lines[i]
           url2 == IF StartsWith(line, UrlPrefix)
                   THEN Some(Strip(Drop(line, 5)))
                   ELSE url
           version2 == IF ~StartsWith(line, UrlPrefix) /\ StartsWith(line, VersionPrefix)
                       THEN Some(Drop(line, VersionSlice))
                       ELSE version
       IN  IF Truthy(url2) /\ Truthy(version2)
           THEN [url |-> url2, version |-> version2]
           ELSE ScanLines_NoStrip(lines, i + 1, url2, version2)

\* lines 86-96: the loop over the lines of one file, from line i on
RECURSIVE ScanLines(_, _, _, _)
ScanLines(lines, i, url, version) ==
  IF i > Len(lines) THEN [url |-> url, version |-> version]
  ELSE LET line == lines[i]
           url2 == IF StartsWith(line, UrlPrefix)
                   THEN Some(Strip(Drop(line, 5)))
                   ELSE url
           version2 == IF ~StartsWith(line, UrlPrefix) /\ StartsWith(line, VersionPrefix)
                       THEN Some(Strip(Drop(line, VersionSlice)))
                       ELSE version
       IN  IF Truthy(url2) /\ Truthy(version2)
           THEN [url |-> url2, version |-> version2]
           ELSE ScanLines(lines, i + 1, url2, version2)

\* lines 85-96: what the scan of one file finds
ScanFile(content) == ScanLines(SplitLines(content), 1, None, None)

\* FileExisting that takes the URL of a record of the current version only
FileExisting_CurrentOnly(content) ==
  LET r == ScanFile(content)
  IN  IF Truthy(r.url) /\ r.version = Some(VERSION) THEN {r.url.val} ELSE {}

\* lines 98-102: the URLs one file adds to existing_episodes and to
\* outdated_episodes
FileExisting(content) ==
  LET r == ScanFile(content)
  IN  IF Truthy(r.url) THEN {r.url.val} ELSE {}

FileOutdated(content) ==
  LET r == ScanFile(content)
  IN  IF Truthy(r.url) /\ r.version # Some(VERSION) THEN {r.url.val} ELSE {}

\* the value of a name of the directory that is no file
NoFile == <<"ENOENT">>

\* line 84: Path(output_dir).glob("*.txt")
Glob(d) == {n \in DOMAIN d : d[n] # NoFile /\ EndsWith(n, <<".","t","x","t">>)}

\* lines 72-104: the result of the scan of the directory d
GetExistingEpisodes(d) ==
  [ existing |-> UNION {FileExisting(d[n]) : n \in Glob(d)},
    outdated |-> UNION {FileOutdated(d[n]) : n \in Glob(d)} ]

(***************************************************************************)
(* The episodes, episode pages and files the model is checked on.          *)
(***************************************************************************)
\* a paragraph of the description of an episode: its text and the target
\* of the link it holds ("" if it holds none)
PlainParagraph == [text |-> <<"A","b","o","u","t"," ","A",".">>, href |-> <<>>]

PrivacyParagraph ==
  [text |-> <<" ","S","e","e"," ","o","m","n","y","s","t","u","d","i","o",".","c","o","m","/","l","i","s","t","e","n","e","r"," ","f","o","r"," ","p","r","i","v","a","c","y"," ","i","n","f","o","r","m","a","t","i","o","n",".">>,
   href |-> <<"h","t","t","p","s",":","/","/","o","m","n","y","s","t","u","d","i","o",".","c","o","m","/","l","i","s","t","e","n","e","r">>]

EpisodeA ==
  [ id |-> JsonInt(1), title |-> <<"A","!">>, startDate |-> Some(0),
    podcastSlug |-> Absent, podcastId |-> Absent, duration |-> 125,
    description |-> <<PlainParagraph, PrivacyParagraph>> ]

\* another episode of the same day whose title gives the same slug
EpisodeA2 ==
  [ id |-> JsonInt(2), title |-> <<"a","?">>, startDate |-> Some(3600000),
    podcastSlug |-> Absent, podcastId |-> Absent, duration |-> 59,
    description |-> <<PlainParagraph>> ]

\* an episode of the other show of the feed
EpisodeOther ==
  [ id |-> JsonInt(3), title |-> <<"I","t"," ","C","o","u","l","d"," ","H","a","p","p","e","n"," ","H","E","R","E"," ","1">>, startDate |-> Some(86400000),
    podcastSlug |-> Absent, podcastId |-> Absent, duration |-> 60,
    description |-> <<>> ]

Episodes == {EpisodeA, EpisodeA2, EpisodeOther}

\* the episode page the site serves for an episode
EpisodePage(episode) ==
  IF episode.id = JsonInt(1)
  THEN [ kind |-> "id",
         spans |-> << [cls |-> <<SpeakerClass>>, text |-> <<"J","a","n","e">>],
                      [cls |-> <<TimeClass>>, text |-> <<"0","0",":","0","0">>],
                      [cls |-> <<TextClass>>, text |-> <<"h","i">>] >> ]
  ELSE [kind |-> "none", spans |-> <<>>]

\* lines 350-368: the text of the paragraphs that hold no privacy link
RECURSIVE ParagraphText(_)
ParagraphText(ps) ==
  IF ps = <<>> THEN <<>>
  ELSE (IF Contains(Head(ps).href, <<"o","m","n","y","s","t","u","d","i","o",".","c","o","m","/","l","i","s","t","e","n","e","r">>)
        THEN <<>> ELSE Head(ps).text) \o ParagraphText(Tail(ps))

CleanHtmlDescription(html_description) == Strip(ParagraphText(html_description))

\* lines 407-415: the strings _save_episode writes, in order
RecordWrites(episode, summary, text) ==
  << <<"T","i","t","l","e",":"," ">> \o episode.title \o <<"\n">>,
     <<"D","a","t","e",":"," ">> \o FormatDate(episode.startDate) \o <<"\n">>,
     <<"L","e","n","g","t","h",":"," ">> \o IntToStr(episode.duration \div 60) \o <<" ","m","i","n","s","\n">>,
     UrlPrefix \o BuildEpisodeUrl(episode) \o <<"\n">>,
     VersionPrefix \o VERSION \o <<"\n">>,
     <<"S","u","m","m","a","r","y",":"," ">> \o summary \o <<"\n", "\n">>,
     <<"T","R","A","N","S","C","R","I","P","T",":","\n","\n">>,
     text >>

\* the content of the file after the first n writes
WrittenAfter(episode, n) ==
  Join(SubSeq(RecordWrites(episode, CleanHtmlDescription(episode.description),
                           ExtractTranscript(EpisodePage(episode))), 1, n))

\* the whole record of an episode
SavedRecord(episode) == WrittenAfter(episode, 8)

(***************************************************************************)
(* _get_existing_episodes, file by file (lines 84-104).                    *)
(***************************************************************************)
MaxFileLines == 3

UrlLine(u) == UrlPrefix \o u \o <<"\n">>

VersionLine(v) == VersionPrefix \o v \o <<"\n">>

IsUrlLine(line) == StartsWith(line, UrlPrefix)

IsVersionLine(line) == StartsWith(line, VersionPrefix)

\* the lines of the files of the directory
IndexLines ==
  { UrlLine(BuildEpisodeUrl(EpisodeA)), UrlLine(BuildEpisodeUrl(EpisodeA2)),
    VersionLine(VERSION), VersionLine(<<"1",".","3",".","6">>), <<"T","i","t","l","e",":"," ","A","!","\n">> }

\* record files: at most one URL line and at most one version line, in any
\* order, among other lines
IndexFiles ==
  { Join(ls) : ls \in
      { f \in UNION {[1..k -> IndexLines] : k \in 0..MaxFileLines} :
          /\ Cardinality({k \in DOMAIN f : IsUrlLine(f[k])}) <= 1
          /\ Cardinality({k \in DOMAIN f : IsVersionLine(f[k])}) <= 1 } }

TxtNames == { <<"a",".","t","x","t">>, <<"b",".","t","x","t">> }

OtherNames == { <<"a",".","m","d">> }

InitIndex ==
  /\ \E txt \in [TxtNames -> IndexFiles \cup {NoFile}] :
       \E other \in [OtherNames -> {NoFile, SavedRecord(EpisodeA2)}] :
         dir = [n \in TxtNames \cup OtherNames |->
                  IF n \in TxtNames THEN txt[n] ELSE other[n]]
  /\ existing_episodes = {}
  /\ outdated_episodes = {}
  /\ scanned = {}
  /\ ipc = "scan"
  /\ IdleExtract /\ IdleFetch /\ IdleRun
  /\ IdleUrl

\* lines 84-102: one iteration of the loop over the files
ScanOne(name) ==
  /\ ipc = "scan"
  /\ name \in Glob(dir) \ scanned
  /\ existing_episodes' = existing_episodes \cup FileExisting(dir[name])
  /\ outdated_episodes' = outdated_episodes \cup FileOutdated(dir[name])
  /\ scanned' = scanned \cup {name}
  /\ UNCHANGED <<dir, ipc>>
  /\ UNCHANGED <<xvars, fvars, rvars>>
  /\ UNCHANGED uvars

\* line 104
ScanReturn ==
  /\ ipc = "scan"
  /\ Glob(dir) \subseteq scanned
  /\ ipc' = "done"
  /\ UNCHANGED <<dir, existing_episodes, outdated_episodes, scanned>>
  /\ UNCHANGED <<xvars, fvars, rvars>>
  /\ UNCHANGED uvars

NextIndex ==
  \/ \E name \in DOMAIN dir : ScanOne(name)
  \/ ScanReturn

SpecIndex == InitIndex /\ [][NextIndex]_vars

(***************************************************************************)
(* Claims about _get_existing_episodes, checked under SpecIndex.           *)
(***************************************************************************)
\* the record files of the directory
RecordFiles == {n \in DOMAIN dir : dir[n] # NoFile /\ EndsWith(n, <<".","t","x","t">>)}

\* the value of the marker `prefix` of the file n, if the file carries it
MarkerLines(n, prefix) ==
  LET lines == SplitLines(dir[n])
  IN  { lines[k] : k \in {j \in 1..Len(lines) : StartsWith(lines[j], prefix)} }

HasMarker(n, prefix) == MarkerLines(n, prefix) # {}

MarkerValue(n, prefix) ==
  LET line == CHOOSE l \in MarkerLines(n, prefix) : TRUE
  IN  Strip(SubSeq(line, Len(prefix) + 1, Len(line)))

IsStale(n) ==
  \/ ~HasMarker(n, VersionPrefix)
  \/ MarkerValue(n, VersionPrefix) # <<"1", ".", "3", ".", "7">>

\* C10: the scan returns knownUrls = the URLs of the record files that carry
\* a URL marker, and staleUrls = the URLs of those of them whose version
\* marker is missing or not the current version; no file gives two empty
\* sets and a file without a URL marker adds to neither.
C10_Index ==
  ipc = "done" =>
    /\ existing_episodes =
         {MarkerValue(n, UrlPrefix) : n \in {m \in RecordFiles : HasMarker(m, UrlPrefix)}}
    /\ outdated_episodes =
         {MarkerValue(n, UrlPrefix) :
            n \in {m \in RecordFiles : HasMarker(m, UrlPrefix) /\ IsStale(m)}}
    /\ (RecordFiles = {} => existing_episodes = {} /\ outdated_episodes = {})

\* two record files: one at the current version (known, not stale), one
\* without a URL marker; a third file that is no record file is not read
C10_Witness ==
  /\ ipc = "done"
  /\ Cardinality(RecordFiles) = 2
  /\ \E n \in RecordFiles : ~HasMarker(n, UrlPrefix) /\ dir[n] # <<>>
  /\ \E n \in DOMAIN dir \ RecordFiles : dir[n] # NoFile
  /\ existing_episodes = {BuildEpisodeUrl(EpisodeA)}
  /\ outdated_episodes = {}

(***************************************************************************)
(* The API and _get_episode_list (lines 192-253).                          *)
(***************************************************************************)
MaxPages == 3

MaxLimit == 2

\* the cursor that names the page k of the feed
Cursor(k) == <<"p">> \o NatToStr(k)

\* the JSON of the page k of the feed: "data", "pageKey" and links.next.
\* A page of the feed says how it names the next page: in "pageKey"
\* ("key"), in links.next only ("next"), or not at all ("end").
Response(fd, k) ==
  IF k \in 1..Len(fd)
  THEN [ data    |-> fd[k].data,
         pageKey |-> IF fd[k].cursor = "key" THEN Some(Cursor(k + 1)) ELSE None,
         next    |-> IF fd[k].cursor = "next" THEN Some(Cursor(k + 1)) ELSE None ]
  ELSE [data |-> <<>>, pageKey |-> None, next |-> None]

\* lines 208-211: the page the URL of the request asks for
RequestedPage(fd, key) ==
  IF ~Truthy(key) THEN 1
  ELSE IF \E k \in 1..(Len(fd) + 1) : Cursor(k) = key.val
       THEN CHOOSE k \in 1..(Len(fd) + 1) : Cursor(k) = key.val
       ELSE Len(fd) + 1

\* FilterEpisodes applied to the last batch only
FilterEpisodes_LastBatch(episodes, batch) == SelectSeq(batch, IsBtb)

\* lines 229-232: the filter, on all the episodes fetched so far
FilterEpisodes(episodes, batch) == SelectSeq(episodes, IsBtb)

\* lines 237-240: the cursor of the next page
NextPageKey(data) == IF Truthy(data.pageKey) THEN data.pageKey ELSE data.next

\* Truncate that returns all the filtered episodes
Truncate_All(episodes, n) == episodes

\* line 253: filtered_episodes[:self.limit], for a limit >= 0
Truncate(episodes, n) ==
  SubSeq(episodes, 1, IF n < Len(episodes) THEN n ELSE Len(episodes))

\* IsSkipped that does not look at outdated_episodes
IsSkipped_KnownOnly(url, existing, outdated) == url \in existing

\* lines 435-436 and 447: is the episode already downloaded and current
IsSkipped(url, existing, outdated) == url \in existing /\ url \notin outdated

\* lines 429-437
ToDownload(episodes, existing, outdated) ==
  SelectSeq(episodes,
            LAMBDA e : ~IsSkipped(BuildEpisodeUrl(e), existing, outdated))

\* the number of page requests of the run so far
Requests(lg) == Cardinality({k \in 1..Len(lg) : lg[k][1] = "request"})

\* lines 249-253 and 425-442: _get_episode_list returns, download_episodes
\* goes on to its loop
ReturnEpisodes(filtered) ==
  /\ btb_episodes' = Truncate(filtered, limit)
  /\ episodes_to_download' =
       ToDownload(Truncate(filtered, limit), existing_episodes, outdated_episodes)
  /\ all_episodes' = <<>>
  /\ filtered_episodes' = <<>>
  /\ page_key' = None
  /\ idx' = 0
  /\ downloaded_count' = 0
  /\ pc' = "loop"

\* lines 206-247: one iteration of the loop, the request answered
RequestPage ==
  /\ pc = "fetch"
  /\ Len(filtered_episodes) < limit
  /\ LET k == RequestedPage(feed, page_key)
         data == Response(feed, k)
         all == all_episodes \o data.data
         filtered == FilterEpisodes(all, data.data)
         key == NextPageKey(data)
     IN  IF data.data = <<>>
         THEN /\ log' = Append(log, <<"request", k>>)
              /\ ReturnEpisodes(filtered_episodes)
         ELSE IF ~Truthy(key)
              THEN /\ log' = Append(log, <<"request", k>>)
                   /\ ReturnEpisodes(filtered)
              ELSE /\ log' = log \o << <<"request", k>>, <<"page_sleep", k>> >>
                   /\ all_episodes' = all
                   /\ filtered_episodes' = filtered
                   /\ page_key' = key
                   /\ UNCHANGED <<btb_episodes, episodes_to_download, idx,
                                  downloaded_count, pc>>
  /\ UNCHANGED <<feed, limit, previous>>
  /\ UNCHANGED <<xvars, ivars>>
  /\ UNCHANGED uvars

\* RequestFails that swallows the error and returns the episodes fetched so far
RequestFails_Partial ==
  /\ pc = "fetch"
  /\ Len(filtered_episodes) < limit
  /\ log' = log \o << <<"request", RequestedPage(feed, page_key)>>,
                      <<"transport_error", RequestedPage(feed, page_key)>> >>
  /\ ReturnEpisodes(filtered_episodes)
  /\ UNCHANGED <<feed, limit, previous>>
  /\ UNCHANGED <<xvars, ivars>>
  /\ UNCHANGED uvars

\* lines 216-217: the request fails, the exception leaves _get_episode_list
\* and download_episodes (no handler: lines 425, 490)
RequestFails ==
  /\ pc = "fetch"
  /\ Len(filtered_episodes) < limit
  /\ log' = log \o << <<"request", RequestedPage(feed, page_key)>>,
                      <<"transport_error", RequestedPage(feed, page_key)>> >>
  /\ pc' = "aborted"
  /\ all_episodes' = <<>>
  /\ filtered_episodes' = <<>>
  /\ page_key' = None
  /\ UNCHANGED <<btb_episodes, episodes_to_download, idx, downloaded_count>>
  /\ UNCHANGED <<feed, limit, previous>>
  /\ UNCHANGED <<xvars, ivars>>
  /\ UNCHANGED uvars

\* line 206: the condition of the loop is false
FetchReturn ==
  /\ pc = "fetch"
  /\ ~(Len(filtered_episodes) < limit)
  /\ ReturnEpisodes(filtered_episodes)
  /\ UNCHANGED <<feed, limit, log, previous>>
  /\ UNCHANGED <<xvars, ivars>>
  /\ UNCHANGED uvars

\* the pages of the feeds the fetch is checked on
PageData ==
  { <<>>, <<EpisodeA>>, <<EpisodeOther, EpisodeA2>>, <<EpisodeA, EpisodeA2>> }

FeedPages == [data : PageData, cursor : {"key", "next", "end"}]

FetchFeeds == UNION {[1..n -> FeedPages] : n \in 1..MaxPages}

InitFetch ==
  /\ feed \in FetchFeeds
  /\ limit \in 0..MaxLimit
  /\ all_episodes = <<>>
  /\ filtered_episodes = <<>>
  /\ page_key = None
  /\ btb_episodes = <<>>
  /\ episodes_to_download = <<>>
  /\ idx = 0
  /\ downloaded_count = 0
  /\ pc = "fetch"
  /\ log = <<>>
  /\ previous = <<>>
  /\ IdleExtract /\ IdleIndex
  /\ IdleUrl

NextFetch ==
  \/ RequestPage
  \/ RequestFails
  \/ FetchReturn

SpecFetch == InitFetch /\ [][NextFetch]_vars

(***************************************************************************)
(* Claims about _get_episode_list, checked under SpecFetch.                *)
(***************************************************************************)
\* the page at which the feed is exhausted: the first page that is empty or
\* names no next page (past the last page the API answers with no episode)
IsLastPage(k) == k > Len(feed) \/ feed[k].data = <<>> \/ feed[k].cursor = "end"

ExhaustedAt == CHOOSE k \in 1..(Len(feed) + 1) :
                 IsLastPage(k) /\ \A j \in 1..(k - 1) : ~IsLastPage(j)

\* the episodes of the pages 1..k of the feed, in order
RECURSIVE FeedItems(_)
FeedItems(k) ==
  IF k = 0 THEN <<>>
  ELSE FeedItems(k - 1) \o (IF k <= Len(feed) THEN feed[k].data ELSE <<>>)

\* the filtered episodes of the feed up to its exhaustion
Available ==
  SelectSeq(FeedItems(ExhaustedAt),
            LAMBDA e : ~Contains(LowerStr(e.title), LowerStr(<<"I","t"," ","C","o","u","l","d"," ","H","a","p","p","e","n"," ","H","e","r","e">>)))

Min(a, b) == IF a < b THEN a ELSE b

FetchReturned == pc = "loop"

\* C2: the fetch returns the first min(limit, F) filtered episodes of the
\* feed, in the order of the feed, F being the number of filtered episodes
\* up to the exhaustion of the feed: never more than limit, exactly limit
\* when limit are available, fewer only when the feed is exhausted.
C2_FetchResult ==
  FetchReturned =>
    /\ btb_episodes = SubSeq(Available, 1, Min(limit, Len(Available)))
    /\ Len(btb_episodes) <= limit
    /\ (Len(Available) >= limit => Len(btb_episodes) = limit)
    /\ (Len(btb_episodes) < limit =>
          \E k \in 1..Len(log) : log[k] = <<"request", ExhaustedAt>>)

\* the limit is reached on the second page while the feed goes on, an
\* episode of the other show was dropped and a filtered one cut off
C2_Witness ==
  /\ FetchReturned
  /\ limit = 2
  /\ Len(btb_episodes) = limit
  /\ Requests(log) = 2
  /\ ExhaustedAt > 2
  /\ Len(Available) > limit
  /\ Len(FeedItems(2)) > Len(SelectSeq(FeedItems(2), IsBtb))
  /\ Len(SelectSeq(FeedItems(2), IsBtb)) > limit

(***************************************************************************)
(* download_episodes: the loop over the episodes (lines 443-478) and the   *)
(* program run again (lines 489-490, 65-66).                               *)
(***************************************************************************)
MaxCatalog == 3

\* the events of the log lg whose name is in names
EventsOf(lg, names) == {k \in 1..Len(lg) : lg[k][1] \in names}

Happened(lg, name, n) == \E k \in 1..Len(lg) : lg[k] = <<name, n>>

\* lines 451-454: the message printed for an episode that is not skipped
Classification(url, outdated) == IF url \in outdated THEN "update" ELSE "new"

\* the loop after the except clause, left
PcAfterError_Abort == "aborted"

\* lines 477-478: the except clause ends the iteration, the loop goes on
PcAfterError == "loop"

\* how many of the writes of lines 408-415 reach the file before one fails
\* (8: all of them, the failure is in closing the file)
WriteFailPoints == 0..8

ThisEpisode == btb_episodes[idx + 1]

InLoop == pc = "loop" /\ idx < Len(btb_episodes)

\* lines 444-449: the episode is downloaded and current
SkipEpisode ==
  /\ InLoop
  /\ IsSkipped(BuildEpisodeUrl(ThisEpisode), existing_episodes, outdated_episodes)
  /\ log' = Append(log, <<"skip", idx>>)
  /\ idx' = idx + 1
  /\ UNCHANGED <<btb_episodes, episodes_to_download, downloaded_count, pc, previous>>
  /\ UNCHANGED <<xvars, ivars, fvars>>
  /\ UNCHANGED uvars

\* what lines 451-461 add to the log: the message and the page request
Attempt ==
  << <<Classification(BuildEpisodeUrl(ThisEpisode), outdated_episodes), idx>>,
     <<"get", idx>> >>

\* SaveEpisode that leaves the tracking sets as they are
SaveEpisode_NoTracking ==
  /\ InLoop
  /\ ~IsSkipped(BuildEpisodeUrl(ThisEpisode), existing_episodes, outdated_episodes)
  /\ dir' = [dir EXCEPT ![SafeFilename(ThisEpisode)] = SavedRecord(ThisEpisode)]
  /\ downloaded_count' = downloaded_count + 1
  /\ log' = log \o Attempt \o << <<"open", idx>>, <<"save", idx>> >>
              \o (IF idx < Len(btb_episodes) - 1 THEN << <<"item_sleep", idx>> >> ELSE <<>>)
  /\ idx' = idx + 1
  /\ UNCHANGED <<existing_episodes, outdated_episodes, scanned, ipc>>
  /\ UNCHANGED <<btb_episodes, episodes_to_download, pc, previous>>
  /\ UNCHANGED <<xvars, fvars>>
  /\ UNCHANGED uvars

\* lines 444-475: the page is fetched and the record saved
SaveEpisode ==
  /\ InLoop
  /\ ~IsSkipped(BuildEpisodeUrl(ThisEpisode), existing_episodes, outdated_episodes)
  /\ dir' = [dir EXCEPT ![SafeFilename(ThisEpisode)] = SavedRecord(ThisEpisode)]
  /\ existing_episodes' = existing_episodes \cup {BuildEpisodeUrl(ThisEpisode)}
  /\ outdated_episodes' = outdated_episodes \ {BuildEpisodeUrl(ThisEpisode)}
  /\ downloaded_count' = downloaded_count + 1
  /\ log' = log \o Attempt \o << <<"open", idx>>, <<"save", idx>> >>
              \o (IF idx < Len(btb_episodes) - 1 THEN << <<"item_sleep", idx>> >> ELSE <<>>)
  /\ idx' = idx + 1
  /\ UNCHANGED <<scanned, ipc>>
  /\ UNCHANGED <<btb_episodes, episodes_to_download, pc, previous>>
  /\ UNCHANGED <<xvars, fvars>>
  /\ UNCHANGED uvars

\* lines 346-347 and 477-478: the request of the episode page fails
PageRequestFails ==
  /\ InLoop
  /\ ~IsSkipped(BuildEpisodeUrl(ThisEpisode), existing_episodes, outdated_episodes)
  /\ log' = log \o Attempt \o << <<"error", idx>> >>
  /\ idx' = idx + 1
  /\ pc' = PcAfterError
  /\ UNCHANGED <<btb_episodes, episodes_to_download, downloaded_count, previous>>
  /\ UNCHANGED <<xvars, ivars, fvars>>
  /\ UNCHANGED uvars

\* lines 407 and 477-478: the file cannot be opened for writing
OpenFails ==
  /\ InLoop
  /\ ~IsSkipped(BuildEpisodeUrl(ThisEpisode), existing_episodes, outdated_episodes)
  /\ log' = log \o Attempt \o << <<"error", idx>> >>
  /\ idx' = idx + 1
  /\ pc' = PcAfterError
  /\ UNCHANGED <<btb_episodes, episodes_to_download, downloaded_count, previous>>
  /\ UNCHANGED <<xvars, ivars, fvars>>
  /\ UNCHANGED uvars

\* WriteFails that updates the tracking sets although the write failed
WriteFails_Tracked(n) ==
  /\ InLoop
  /\ ~IsSkipped(BuildEpisodeUrl(ThisEpisode), existing_episodes, outdated_episodes)
  /\ dir' = [dir EXCEPT ![SafeFilename(ThisEpisode)] = WrittenAfter(ThisEpisode, n)]
  /\ existing_episodes' = existing_episodes \cup {BuildEpisodeUrl(ThisEpisode)}
  /\ outdated_episodes' = outdated_episodes \ {BuildEpisodeUrl(ThisEpisode)}
  /\ log' = log \o Attempt \o << <<"open", idx>>, <<"error", idx>> >>
  /\ idx' = idx + 1
  /\ pc' = PcAfterError
  /\ UNCHANGED <<scanned, ipc>>
  /\ UNCHANGED <<btb_episodes, episodes_to_download, downloaded_count, previous>>
  /\ UNCHANGED <<xvars, fvars>>
  /\ UNCHANGED uvars

\* lines 407-415 and 477-478: the file is opened (and so emptied), n writes
\* reach it, then a write fails
WriteFails(n) ==
  /\ InLoop
  /\ ~IsSkipped(BuildEpisodeUrl(ThisEpisode), existing_episodes, outdated_episodes)
  /\ dir' = [dir EXCEPT ![SafeFilename(ThisEpisode)] = WrittenAfter(ThisEpisode, n)]
  /\ log' = log \o Attempt \o << <<"open", idx>>, <<"error", idx>> >>
  /\ idx' = idx + 1
  /\ pc' = PcAfterError
  /\ UNCHANGED <<existing_episodes, outdated_episodes, scanned, ipc>>
  /\ UNCHANGED <<btb_episodes, episodes_to_download, downloaded_count, previous>>
  /\ UNCHANGED <<xvars, fvars>>
  /\ UNCHANGED uvars

\* line 443: the loop is over, download_episodes returns
LoopEnd ==
  /\ pc = "loop"
  /\ idx = Len(btb_episodes)
  /\ pc' = "done"
  /\ UNCHANGED <<btb_episodes, episodes_to_download, idx, downloaded_count, log, previous>>
  /\ UNCHANGED <<xvars, ivars, fvars>>
  /\ UNCHANGED uvars

\* no episode of the run failed
AllSucceeded(lg) == EventsOf(lg, {"error"}) = {}

\* lines 489-490 again: the program is run once more on the same directory,
\* with the same limit and the same feed, after a run that ended with no
\* failure; the constructor scans the directory (line 66)
RunAgain ==
  /\ pc = "done"
  /\ previous = <<>>
  /\ AllSucceeded(log)
  /\ previous' = Append(previous, log)
  /\ log' = <<>>
  /\ existing_episodes' = GetExistingEpisodes(dir).existing
  /\ outdated_episodes' = GetExistingEpisodes(dir).outdated
  /\ btb_episodes' = <<>>
  /\ episodes_to_download' = <<>>
  /\ idx' = 0
  /\ downloaded_count' = 0
  /\ pc' = "fetch"
  /\ UNCHANGED <<dir, scanned, ipc>>
  /\ UNCHANGED <<xvars, fvars>>
  /\ UNCHANGED uvars

\* the feed of a catalog: pages of two episodes, each naming the next page
\* in "pageKey", the last page naming none
RECURSIVE Paginate(_)
Paginate(catalog) ==
  IF Len(catalog) <= 2 THEN << [data |-> catalog, cursor |-> "end"] >>
  ELSE << [data |-> SubSeq(catalog, 1, 2), cursor |-> "key"] >>
         \o Paginate(SubSeq(catalog, 3, Len(catalog)))

RunFeeds ==
  { Paginate(c) : c \in UNION {[1..n -> Episodes] : n \in 0..MaxCatalog} }

\* a record written by an earlier version of the program
OldRecord(episode) ==
  Join(<< UrlLine(BuildEpisodeUrl(episode)), VersionLine(<<"1",".","3",".","6">>), <<"T","R","A","N","S","C","R","I","P","T",":","\n">> >>)

\* a record written before records had a version line
UnversionedRecord(episode) ==
  Join(<< UrlLine(BuildEpisodeUrl(episode)), <<"T","R","A","N","S","C","R","I","P","T",":","\n">> >>)

\* the output directories the program is started on
RunDirs ==
  { [n \in {SafeFilename(e) : e \in Episodes} \cup { <<"o","l","d",".","t","x","t">> } |->
       IF n = SafeFilename(EpisodeA) THEN here
       ELSE IF n = <<"o","l","d",".","t","x","t">> THEN old
       ELSE NoFile] :
    here \in {NoFile, SavedRecord(EpisodeA), OldRecord(EpisodeA), SavedRecord(EpisodeA2)},
    old \in {NoFile, UnversionedRecord(EpisodeA)} }

\* the state after the construction of the downloader (lines 44-66)
Init ==
  /\ dir \in RunDirs
  /\ existing_episodes = GetExistingEpisodes(dir).existing
  /\ outdated_episodes = GetExistingEpisodes(dir).outdated
  /\ scanned = {}
  /\ ipc = "done"
  /\ feed \in RunFeeds
  /\ limit \in 0..MaxLimit
  /\ all_episodes = <<>>
  /\ filtered_episodes = <<>>
  /\ page_key = None
  /\ btb_episodes = <<>>
  /\ episodes_to_download = <<>>
  /\ idx = 0
  /\ downloaded_count = 0
  /\ pc = "fetch"
  /\ log = <<>>
  /\ previous = <<>>
  /\ IdleExtract
  /\ IdleUrl

Next ==
  \/ RequestPage
  \/ RequestFails
  \/ FetchReturn
  \/ SkipEpisode
  \/ SaveEpisode
  \/ PageRequestFails
  \/ OpenFails
  \/ \E n \in WriteFailPoints : WriteFails(n)
  \/ LoopEnd
  \/ RunAgain

Spec == Init /\ [][Next]_vars

(***************************************************************************)
(* Claims about download_episodes, checked under Spec.                     *)
(***************************************************************************)
ClassEvents == {"skip", "update", "new"}

ItemEvents == ClassEvents \cup {"get", "open", "save", "error"}

\* C1: a second run over the same directory, with the same feed, limit and
\* version, after a first run in which every page request and every write
\* succeeded, classifies every candidate as skip and writes no record.
C1_Idempotent ==
  (previous # <<>> /\ AllSucceeded(previous[1])) =>
    EventsOf(log, {"update", "new", "get", "open", "save"}) = {}

\* what a step of the loop adds to the log
NewEvents == SubSeq(log', Len(log) + 1, Len(log'))

C3_Step ==
  LET url == BuildEpisodeUrl(btb_episodes[idx + 1])
      known == url \in existing_episodes
      stale == url \in outdated_episodes
      class == NewEvents[1][1]
  IN  /\ Len(NewEvents) >= 1
      /\ NewEvents[1][2] = idx
      /\ class \in ClassEvents
      /\ (class = "skip") = (known /\ ~stale)
      /\ (class = "update") = stale
      /\ (class = "new") = (~known /\ ~stale)
      /\ class = "skip" => NewEvents = << <<"skip", idx>> >> /\ dir' = dir
      /\ class # "skip" => Len(NewEvents) >= 2 /\ NewEvents[2] = <<"get", idx>>

\* C3: each candidate, in the order of the catalog, is classified as skip
\* exactly when its URL is known and not stale, as update exactly when it
\* is stale, as new exactly when it is neither; a skipped candidate is
\* neither fetched nor written, any other has its page requested.
C3_Classification ==
  [][(InLoop /\ idx' = idx + 1) => C3_Step]_vars

\* a stale record was updated, and a later candidate skipped without a request
C3_Witness ==
  \E i, j \in 0..MaxLimit :
    /\ i < j
    /\ Happened(log, "update", i) /\ Happened(log, "save", i)
    /\ Happened(log, "skip", j) /\ ~Happened(log, "get", j)

\* C4: a failure in processing a candidate is caught and the loop goes on:
\* every candidate is classified and, unless skipped, processed, and the
\* run ends normally whichever candidates fail.
C4_LoopContinues ==
  /\ pc \in {"loop", "done"} =>
       \A k \in 0..(idx - 1) :
         /\ Cardinality({e \in EventsOf(log, ClassEvents) : log[e][2] = k}) = 1
         /\ ~Happened(log, "skip", k) => Happened(log, "get", k)
  /\ pc = "done" => idx = Len(btb_episodes)
  /\ pc = "aborted" => EventsOf(log, ItemEvents) = {}
  /\ pc = "loop" => idx <= Len(btb_episodes)

\* the run ended normally, a candidate failed and a later one was saved
C4_Witness ==
  /\ pc = "done"
  /\ \E i, j \in 0..MaxLimit :
       i < j /\ Happened(log, "error", i) /\ Happened(log, "save", j)

\* C5: a transport error on a page of the catalog ends the run: the request
\* is not repeated, no catalog is returned, no candidate is classified or
\* processed and no record is written, whatever pages succeeded before.
C5_FetchErrorIsFatal ==
  EventsOf(log, {"transport_error"}) # {} =>
    /\ pc = "aborted"
    /\ log[Len(log)][1] = "transport_error"
    /\ Cardinality(EventsOf(log, {"transport_error"})) = 1
    /\ \A j, k \in EventsOf(log, {"request"}) : j # k => log[j][2] # log[k][2]
    /\ btb_episodes = <<>>
    /\ EventsOf(log, ItemEvents) = {}

\* the second page request of the run fails
C5_Witness ==
  /\ pc = "aborted"
  /\ Requests(log) = 2
  /\ log[Len(log)] = <<"transport_error", 2>>

(***************************************************************************)
(* _build_episode_url (lines 125-140) called on the episodes of a catalog. *)
(***************************************************************************)
MaxUrlCalls == 3

\* the identifiers, titles and container fields of the episodes
UrlIds == { JsonInt(1), JsonInt(11), JsonInt(-1), JsonStr(<<"1">>), JsonStr(<<"b","-","1">>) }

UrlTitles == { <<"a">>, <<"A"," ","1">>, <<"a"," ","b">>, <<>> }

UrlPodcastSlugs == { Absent, Some(<<"x">>), Some(<<"x","-","7">>) }

UrlPodcastIds == { Absent, Some(<<"7">>) }

UrlEpisodes ==
  [ id : UrlIds, title : UrlTitles,
    podcastSlug : UrlPodcastSlugs, podcastId : UrlPodcastIds ]

InitUrl ==
  /\ url_episodes \in [1..2 -> UrlEpisodes]
  /\ url_results = <<>>
  /\ IdleExtract /\ IdleIndex /\ IdleFetch /\ IdleRun

\* lines 432, 444: the URL of the episode i is computed
BuildUrl(i) ==
  /\ Len(url_results) < MaxUrlCalls
  /\ url_results' = Append(url_results, <<i, BuildEpisodeUrl(url_episodes[i])>>)
  /\ UNCHANGED url_episodes
  /\ UNCHANGED <<xvars, ivars, fvars, rvars>>

NextUrl == \E i \in 1..2 : BuildUrl(i)

SpecUrl == InitUrl /\ [][NextUrl]_vars

(***************************************************************************)
(* Claims about _build_episode_url, checked under SpecUrl.                 *)
(***************************************************************************)
\* C11: two episodes whose identifiers differ get different URLs, whatever
\* their titles and container fields, and two computations of the URL of
\* one episode give the same URL.
C11_Injective ==
  \A j, k \in 1..Len(url_results) :
    /\ url_episodes[url_results[j][1]].id # url_episodes[url_results[k][1]].id
         => url_results[j][2] # url_results[k][2]
    /\ url_results[j][1] = url_results[k][1]
         => url_results[j][2] = url_results[k][2]

(***************************************************************************)
(* Claims about the delays and the termination of _get_episode_list,       *)
(* checked under SpecFetch.                                                *)
(***************************************************************************)
\* the position in the log of the last page request (0 if there is none)
LastRequest ==
  LET rs == EventsOf(log, {"request"})
  IN  IF rs = {} THEN 0 ELSE CHOOSE k \in rs : \A j \in rs : j <= k

\* C12: a delay lies between every two consecutive page requests, and no
\* delay follows the last page request of the fetch, whichever condition
\* ends the fetch.
C12_PageDelay ==
  /\ \A j, k \in EventsOf(log, {"request"}) :
       j < k => \E s \in EventsOf(log, {"page_sleep"}) : j < s /\ s < k
  /\ pc \in {"loop", "aborted"} =>
       \A s \in EventsOf(log, {"page_sleep"}) : s < LastRequest

(***************************************************************************)
(* Claims about the delays and the tracking sets of download_episodes,     *)
(* checked under Spec.                                                     *)
(***************************************************************************)
\* the candidates of the run that were not skipped
NonSkipped == {k \in 0..(Len(btb_episodes) - 1) : Happened(log, "get", k)}

\* C13: at the end of the run a delay follows a candidate that was not
\* skipped exactly when another candidate that was not skipped comes after
\* it: a delay between any two consecutive such candidates, none after the
\* last of them.
C13_ItemDelay ==
  pc = "done" =>
    \A k \in NonSkipped :
      Happened(log, "item_sleep", k) <=> (\E j \in NonSkipped : j > k)

\* one step of the run: the tracking sets change only with a record saved,
\* and then by the URL of that record
C14_Step ==
  LET url == BuildEpisodeUrl(btb_episodes[idx + 1])
  IN  IF InLoop /\ \E e \in 1..Len(NewEvents) : NewEvents[e] = <<"save", idx>>
      THEN /\ existing_episodes' = existing_episodes \cup {url}
           /\ outdated_episodes' = outdated_episodes \ {url}
      ELSE UNCHANGED <<existing_episodes, outdated_episodes>>

\* C14: during a run existing_episodes and outdated_episodes change only
\* with a record written with success, which adds the URL of the record to
\* existing_episodes and takes it out of outdated_episodes; a candidate that
\* is skipped or fails leaves both sets as they are.
C14_Frame ==
  [][(pc \in {"fetch", "loop"}) => C14_Step]_vars

\* a stale record was updated and a write of another candidate failed
C14_Witness ==
  /\ pc = "done"
  /\ \E i, j \in 0..MaxLimit :
       /\ i # j
       /\ Happened(log, "update", i) /\ Happened(log, "save", i)
       /\ Happened(log, "open", j) /\ Happened(log, "error", j)
  /\ outdated_episodes = {}
  /\ existing_episodes # {}

\* the loop of _get_episode_list runs on: a sequential program takes its
\* next step
SpecFetchFair == SpecFetch /\ WF_vars(NextFetch)

\* the filtered episodes of the pages 1..k of the feed
FilteredUpTo(k) == SelectSeq(FeedItems(k), IsBtb)

\* what holds of the page requests made so far
C15_Requests ==
  /\ limit = 0 => Requests(log) = 0
  /\ \A e \in EventsOf(log, {"request"}) :
       /\ Len(FilteredUpTo(log[e][2] - 1)) < limit
       /\ log[e][2] <= ExhaustedAt
       /\ \A j \in 1..(log[e][2] - 1) :
            feed[j].data # <<>> /\ feed[j].cursor # "end"
  /\ \A d, e \in EventsOf(log, {"request"}) : d # e => log[d][2] # log[e][2]
  /\ Requests(log) <= Len(feed) + 1

\* C15: no page is requested once the number of filtered episodes has
\* reached the limit (none at all for a limit of 0), nor after an empty page
\* (with or without cursor), nor after a response without cursor; no page is
\* requested twice, and the fetch comes to an end.
C15_Termination ==
  /\ []C15_Requests
  /\ <>(pc # "fetch")

\* the fetch ended below the limit on an empty page that names a next page
C15_Witness ==
  /\ pc = "loop"
  /\ ExhaustedAt \in 2..Len(feed)
  /\ feed[ExhaustedAt].data = <<>>
  /\ feed[ExhaustedAt].cursor # "end"
  /\ Requests(log) = ExhaustedAt
  /\ Len(btb_episodes) < limit
  /\ btb_episodes # <<>>

(***************************************************************************)
(* Claims about the blocks and the lines of _extract_transcript, checked   *)
(* under SpecExtract.                                                      *)
(***************************************************************************)
\* the pieces emitted for the first n spans of the container
LinesAfter(n) == Walk(WalkStart, SubSeq(all_spans, 1, n), 1).lines

\* the piece is a header that names the speaker
NamesSpeaker(piece, speaker) ==
  StartsWith(piece, speaker \o <<" ">>) /\ EndsWith(piece, <<":">>)

\* C16: a Speaker fragment opens a block: every non-empty Text fragment that
\* comes after a Speaker fragment is emitted after a header that names that
\* speaker, emitted since the Speaker fragment, also when no Timestamp
\* fragment lies between the two.
C16_SpeakerOpensBlock ==
  \A k \in 1..Len(all_spans) :
    (Role(k) = "text" /\ FragText(k) # <<>>) =>
      LET ls == LastBefore("speaker", k)
      IN  (ls > 0 /\ FragText(ls) # <<>>) =>
            \E p \in (Len(LinesAfter(ls)) + 1)..Len(LinesAfter(k - 1)) :
              NamesSpeaker(LinesAfter(k - 1)[p], FragText(ls))

\* the last span before the span k that emitted a piece (0 if there is none)
PrevEmitter(k) ==
  LET js == {j \in 1..(k - 1) : Len(LinesAfter(j)) > Len(LinesAfter(j - 1))}
  IN  IF js = {} THEN 0 ELSE CHOOSE j \in js : \A i \in js : i <= j

\* the pieces emitted for the span k
Emitted(k) == SubSeq(LinesAfter(k), Len(LinesAfter(k - 1)) + 1, Len(LinesAfter(k)))

\* C17: a non-empty Text fragment starts a new line exactly when the piece
\* emitted just before it is a block header; after another Text fragment it
\* is appended to the line with one joining space, whatever the earlier
\* text ends with.
C17_TextLines ==
  \A k \in 1..Len(all_spans) :
    (Role(k) = "text" /\ FragText(k) # <<>> /\ PrevEmitter(k) > 0) =>
      IF Role(PrevEmitter(k)) = "time"
      THEN Emitted(k) = << <<"\n">> \o FragText(k) >>
      ELSE Emitted(k) = << <<" ">> \o FragText(k) >>

\* C18: at the end of a run existing_episodes and outdated_episodes are the
\* two sets that a scan of the output directory, as it then stands, returns;
\* so every URL written in the run is, after a new scan, in the first set
\* and not in the second.
C18_IndexMatchesDirectory ==
  pc = "done" =>
    /\ existing_episodes = GetExistingEpisodes(dir).existing
    /\ outdated_episodes = GetExistingEpisodes(dir).outdated

\* C19: outdated_episodes is a subset of existing_episodes in every state,
\* from the scan of the directory through every step of the loop to the end
\* of the run, whatever candidates are skipped, saved or fail.
C19_StaleWithinKnown == outdated_episodes \subseteq existing_episodes

\* a run over a directory with a stale record ended with that record still
\* stale, after a candidate was saved and another failed
C19_Witness ==
  /\ pc = "done"
  /\ outdated_episodes # {}
  /\ \E i, j \in 0..MaxLimit : Happened(log, "save", i) /\ Happened(log, "error", j)

\* the candidates i and j of the run have the same URL
SameUrl(i, j) ==
  BuildEpisodeUrl(btb_episodes[i + 1]) = BuildEpisodeUrl(btb_episodes[j + 1])

\* C20: in one run at most one record is written per URL: once a record of
\* a URL is saved, every later candidate of the list with the same URL is
\* classified as skip, its page is not requested and no record is written.
C20_OneWritePerUrl ==
  pc \in {"loop", "done"} =>
    \A i, j \in 0..(idx - 1) :
      (i < j /\ SameUrl(i, j) /\ Happened(log, "save", i)) =>
        /\ Happened(log, "skip", j)
        /\ ~Happened(log, "get", j)
        /\ ~Happened(log, "open", j)
        /\ ~Happened(log, "save", j)

\* the list holds a stale episode twice: the first occurrence was updated,
\* the second skipped
C20_Witness ==
  /\ pc = "done"
  /\ \E i, j \in 0..MaxLimit :
       /\ i < j /\ j < Len(btb_episodes)
       /\ SameUrl(i, j)
       /\ Happened(log, "update", i) /\ Happened(log, "save", i)
       /\ Happened(log, "skip", j)

====
